---- MODULE Spec2Model ----
(***************************************************************************)
(* A model of the resumable catalog scraper: BaseScraper (src/base.py) and *)
(* PucciScraper (src/scraper.py).                                          *)
(*                                                                         *)
(* Strings that the code takes apart (hosts, paths, ids) are sequences of  *)
(* one-character strings, so that lower(), the "www." strip and the id     *)
(* sanitiser are computed as the code computes them.                       *)
(***************************************************************************)
EXTENDS Integers, Sequences, FiniteSets, TLC

(***************************************************************************)
(* Bounds of the model.                                                    *)
(***************************************************************************)
\* The listing of a row has pages 0..MaxPage; a page beyond it has no links.
MaxPage == 4
\* The number of extract_products invocations made on the row.
MaxRuns == 3
\* The number of stage runs (scrape_directory / scrape_detail calls).
MaxStageRuns == 4

\* The number of checkpoint files damaged in a behaviour of the stages.
MaxDamage == 1

\* self.pages_limit = 3
pages_limit == 3

\* Optional values: Python's None is the empty sequence, a value x is <<x>>.
None == <<>>

Some(x) == <<x>>

(***************************************************************************)
(* Characters, hosts, paths.                                               *)
(***************************************************************************)
Host == <<"p", "u", "c", "c", "i", ".", "c", "o", "m">>
WwwHost == <<"w", "w", "w", ".">> \o Host
UpperWwwHost == <<"W", "W", "W", ".", "P", "u", "c", "c", "i", ".", "c", "o", "m">>
OtherHost == <<"o", ".", "c", "o", "m">>

\* The characters [^\w\-\.] does not match: letters, digits, "_", "-", ".".
WordChars ==
    {"a", "b", "c", "d", "i", "k", "m", "o", "p", "u", "w", "W", "P",
     "0", "1", "2", "_", "-", "."}

\* str.lower() on the characters the model uses.
LowerChar(c) == CASE c = "W" -> "w" [] c = "P" -> "p" [] OTHER -> c

Lower(s) == [i \in 1..Len(s) |-> LowerChar(s[i])]

\* s.startswith(p)
StartsWith(s, p) == Len(s) >= Len(p) /\ SubSeq(s, 1, Len(p)) = p

\* re.sub(r"[^\w\-\.]", "_", s)
Sanitize(s) == [i \in 1..Len(s) |-> IF s[i] \in WordChars THEN s[i] ELSE "_"]

RECURSIVE LStrip(_)
LStrip(s) == IF s # <<>> /\ Head(s) = "_" THEN LStrip(Tail(s)) ELSE s

RECURSIVE RStrip(_)
RStrip(s) ==
    IF s # <<>> /\ s[Len(s)] = "_" THEN RStrip(SubSeq(s, 1, Len(s) - 1)) ELSE s

\* s.strip("_")
Strip(s) == RStrip(LStrip(s))

(***************************************************************************)
(* URLs.  A parsed URL is [scheme, netloc, path, page]: page is Some(the    *)
(* value of the "page" query parameter), or None when the query has none.  *)
(***************************************************************************)
Url(scheme, netloc, path, page) ==
    [scheme |-> scheme, netloc |-> netloc, path |-> path, page |-> page]

\* BaseScraper.normalize_url
normalize_url(url) ==
    LET netloc == Lower(url.netloc)
        stripped == IF StartsWith(netloc, <<"w", "w", "w", ".">>)
                    THEN SubSeq(netloc, 5, Len(netloc))
                    ELSE netloc
    IN  [url EXCEPT !.scheme = "https", !.netloc = stripped]

\* PucciScraper.get_id_from_url
get_id_from_url(url) == Strip(Sanitize(url.netloc \o url.path))

\* self.url: main() constructs PucciScraper(url="https://www.pucci.com")
SelfUrl == normalize_url(Url("https", WwwHost, <<>>, None))

\* urljoin(self.url, href) for an href that is absolute or has an absolute path
urljoin(base, href) ==
    IF href.netloc # <<>>
    THEN [href EXCEPT !.scheme = IF href.scheme = "" THEN base.scheme ELSE href.scheme]
    ELSE [href EXCEPT !.scheme = base.scheme, !.netloc = base.netloc]

\* PucciScraper._is_internal_link
is_internal_link(url) == normalize_url(url).netloc = SelfUrl.netloc

\* (mutant) the page is always read from the url, current_page is ignored
get_next_page_url_from_url(current_url, current_page) ==
    LET page == IF current_url.page = None THEN 0 ELSE current_url.page[1]
    IN  <<page + 1, [current_url EXCEPT !.page = Some(page + 1)]>>

\* (mutant) the new page number is returned with the url as it was given:
\* the query is not rebuilt
get_next_page_url_same_url(current_url, current_page) ==
    LET page == IF current_page = None
                THEN (IF current_url.page = None THEN 0 ELSE current_url.page[1])
                ELSE current_page[1]
    IN  <<page + 1, current_url>>

\* PucciScraper.get_next_page_url: <<new page number, next url>>
get_next_page_url(current_url, current_page) ==
    LET page == IF current_page = None
                THEN (IF current_url.page = None THEN 0 ELSE current_url.page[1])
                ELSE current_page[1]
    IN  <<page + 1, [current_url EXCEPT !.page = Some(page + 1)]>>

(***************************************************************************)
(* Pages.  A page is the sequence of <a href> elements that the nested     *)
(* find_all loops of extract_links visit, in that order.  An anchor is     *)
(* [href, text, tags]: href a parsed URL (scheme "" and netloc <<>> for a  *)
(* relative one), text its stripped text, tags the tags that occur in one  *)
(* of its classes, its href or its text (the substring test's outcome).    *)
(***************************************************************************)
Anchor(href, text, tags) == [href |-> href, text |-> text, tags |-> tags]

Rel(path) == Url("", <<>>, path, None)

aA == Anchor(Rel(<<"/", "a">>), <<"A", "a">>, {"products"})
aB == Anchor(Rel(<<"/", "b">>), <<"B", "b">>, {"products"})
aC == Anchor(Rel(<<"/", "c">>), <<"C", "c">>, {"products"})
\* the product of aA under an absolute href with another spelling of the host
aA2 == Anchor(Url("http", UpperWwwHost, <<"/", "a">>, None), <<"A", "a">>, {"products"})
\* a link to another site
aX == Anchor(Url("https", OtherHost, <<"/", "a">>, None), <<"X", "x">>, {"products"})
\* a link whose text has one character
aS == Anchor(Rel(<<"/", "c">>), <<"C">>, {"products"})
\* a link that matches no tag
aN == Anchor(Rel(<<"/", "d">>), <<"N", "n">>, {})
\* category links of the site root
aK == Anchor(Rel(<<"/", "k">>), <<"K", "k">>, {"collections"})
aM == Anchor(Rel(<<"/", "m">>), <<"M", "m">>, {"collections"})
\* href="/k/": another url than that of aK, the same get_id_from_url
aK2 == Anchor(Rel(<<"/", "k", "/">>), <<"K", "2">>, {"collections"})

\* A fetch returns a parsed page, or raises (raise_for_status, a timeout).
Page(anchors) == [ok |-> TRUE, anchors |-> anchors]

FetchError == [ok |-> FALSE, anchors |-> <<>>]

\* PucciScraper.extract_links, given the fetched page's anchors
RECURSIVE extract_links_from(_, _, _, _)
extract_links_from(anchors, tag, links, link_urls) ==
    IF anchors = <<>> THEN links
    ELSE LET link == Head(anchors)
             full_url == normalize_url(urljoin(SelfUrl, link.href))
             keep == /\ Len(link.text) >= 2
                     /\ tag \in link.tags
                     /\ is_internal_link(full_url)
                     /\ full_url \notin link_urls
         IN  IF keep
             THEN extract_links_from(Tail(anchors), tag,
                      Append(links, [id |-> get_id_from_url(link.href),
                                     text |-> link.text,
                                     url |-> full_url]),
                      link_urls \cup {full_url})
             ELSE extract_links_from(Tail(anchors), tag, links, link_urls)

extract_links(anchors, tag) == extract_links_from(anchors, tag, <<>>, {})

(***************************************************************************)
(* The web.  A web maps a URL without its page parameter to a listing: a   *)
(* function from page indices 0..n to fetch results.  The URL without a    *)
(* page parameter serves index 0, ?page=k serves index k, an index beyond  *)
(* the listing serves a page without links, an unknown URL fails.          *)
(***************************************************************************)
PageIndex(url) == IF url.page = None THEN 0 ELSE url.page[1]

Fetch(web, url) ==
    LET base == [url EXCEPT !.page = None]
    IN  IF base \notin DOMAIN web THEN FetchError
        ELSE IF PageIndex(url) \in DOMAIN web[base]
             THEN web[base][PageIndex(url)]
             ELSE Page(<<>>)

(***************************************************************************)
(* Checkpoint rows.  A row is the dict {"state": {"page": n}, "rows": [..]}*)
(* as a record; an optional row (the data argument) is None or Some(row).  *)
(***************************************************************************)
\* BaseScraper.deepget on a row: the walk along keys, default when a key is missing
RECURSIVE deepget_walk(_, _, _)
deepget_walk(dct, keys, default) ==
    IF keys = <<>> THEN dct
    ELSE IF Head(keys) \in DOMAIN dct
         THEN deepget_walk(dct[Head(keys)], Tail(keys), default)
         ELSE default

\* BaseScraper.deepget: "if not dct" holds of None and of the empty dict
deepget(data, keys, default) ==
    IF data = None \/ DOMAIN data[1] = {} THEN default
    ELSE deepget_walk(data[1], keys, default)

\* The for loop of extract_products over the links of one page:
\* <<product_links, new_products, current_products>> after it.
RECURSIVE collect_products(_, _, _, _)
collect_products(products, product_links, new_products, current_products) ==
    IF products = <<>> THEN <<product_links, new_products, current_products>>
    ELSE LET product == Head(products)
         IN  IF product.url \notin product_links
             THEN collect_products(Tail(products),
                      product_links \cup {product.url},
                      new_products \cup {product.url},
                      Append(current_products, product))
             ELSE collect_products(Tail(products), product_links, new_products,
                      current_products)

\* What an extract_products call returns, with the URLs it fetched and the
\* way its loop ended; ok = FALSE when a fetch raised.
Returned(page, rows, fetched, exit) ==
    [ok |-> TRUE, state |-> [page |-> page], rows |-> rows,
     fetched |-> fetched, exit |-> exit]

Raised(fetched) ==
    [ok |-> FALSE, state |-> [page |-> 0], rows |-> <<>>,
     fetched |-> fetched, exit |-> "raised"]

\* product_links as extract_products initialises it
initial_product_links(current_products) == {}

\* The while loop of extract_products
RECURSIVE products_loop(_, _, _, _, _, _, _, _, _)
products_loop(web, limit, current_page, next_url, seen_urls, product_links, current_products, page_count, fetched) ==
    IF next_url \in seen_urls
    THEN Returned(current_page, current_products, fetched, "exhausted")
    ELSE LET soup == Fetch(web, next_url)
             now_fetched == Append(fetched, next_url)
             products == extract_links(soup.anchors, "products")
             got == collect_products(products, product_links, {}, current_products)
             nxt == get_next_page_url(next_url, Some(current_page))
         IN  IF ~soup.ok THEN Raised(now_fetched)
             ELSE IF got[2] = {}
             THEN Returned(current_page - 1, got[3], now_fetched, "stalled")
             ELSE IF page_count + 1 >= limit
             THEN Returned(nxt[1] - 1, got[3], now_fetched, "capped")
             ELSE products_loop(web, limit, nxt[1], nxt[2],
                      seen_urls \cup {next_url}, got[1], got[3],
                      page_count + 1, now_fetched)

\* (mutant) current_products starts as a new list: the rows of the
\* checkpoint are not carried over
extract_products_new_rows(web, url, data, limit) ==
    LET current_page == deepget(data, <<"state", "page">>, 0)
        nxt == get_next_page_url(url, Some(current_page))
    IN  products_loop(web, limit, nxt[1], nxt[2], {}, {}, <<>>, 0, <<>>)

\* PucciScraper.extract_products with self.pages_limit = limit
extract_products_limit(web, url, data, limit) ==
    LET current_page == deepget(data, <<"state", "page">>, 0)
        current_products == deepget(data, <<"rows">>, <<>>)
        nxt == get_next_page_url(url, Some(current_page))
    IN  products_loop(web, limit, nxt[1], nxt[2], {},
            initial_product_links(current_products), current_products, 0, <<>>)

\* (mutant) the cap test "page_count > self.pages_limit"
extract_products_late_cap(web, url, data) ==
    extract_products_limit(web, url, data, pages_limit + 1)

\* PucciScraper.extract_products
extract_products(web, url, data) ==
    extract_products_limit(web, url, data, pages_limit)

(***************************************************************************)
(* The checkpoint store.  A store maps a tag to its directory: whether it  *)
(* exists, and its <id>.json files as a function from id to the JSON value *)
(* written.  The key "root" and the ids are character sequences.           *)
(***************************************************************************)
Tags == {"collections", "products", "product_details"}

RootId == <<"r", "o", "o", "t">>

NoDir == [exists |-> FALSE, files |-> <<>>]

\* The content of a file json.load raises JSONDecodeError for.
Malformed == [malformed |-> TRUE]

well_formed(f) == "malformed" \notin DOMAIN f

\* The dict load_json builds: the files json.load parses, by their stem
parsed_files(files) ==
    [id \in {i \in DOMAIN files : well_formed(files[i])} |-> files[id]]

\* (mutant) load_json without the try/except around json.load: a file that
\* does not parse ends the load without a dict
load_json_no_skip(store, tag) ==
    IF ~store[tag].exists THEN None
    ELSE IF \E i \in DOMAIN store[tag].files : ~well_formed(store[tag].files[i])
         THEN None
         ELSE Some(store[tag].files)

\* BaseScraper.load_json: None when the directory is missing, else Some(dict)
\* of the files that parse; a file that does not parse is skipped
load_json(store, tag) ==
    IF ~store[tag].exists THEN None ELSE Some(parsed_files(store[tag].files))

\* BaseScraper.write_json: mkdir(exist_ok=True), then one file per item of data
write_json(store, tag, items) ==
    [store EXCEPT ![tag] = [exists |-> TRUE, files |-> items @@ store[tag].files]]

\* "not d" for an optional dict: None or {}
is_empty(d) == d = None \/ DOMAIN d[1] = {}

\* data.get(key) if data else None
get_or_none(d, key) ==
    IF is_empty(d) THEN None
    ELSE IF key \in DOMAIN d[1] THEN Some(d[1][key]) ELSE None

\* What directory() gives back: ok = FALSE when a fetch raised.
Done(value, fetched) == [ok |-> TRUE, value |-> value, fetched |-> fetched]

Failed(fetched) == [ok |-> FALSE, value |-> <<>>, fetched |-> fetched]

\* The row directory() returns for "collections", of the fetched root page
collections_row(soup, url, tag) ==
    IF soup.ok
    THEN Done([state |-> [page |-> 0], rows |-> extract_links(soup.anchors, tag)],
              <<url>>)
    ELSE Failed(<<url>>)

\* The row directory() returns for "products", of what extract_products returned
products_row(res) ==
    IF res.ok
    THEN Done([state |-> res.state, rows |-> res.rows], res.fetched)
    ELSE Failed(res.fetched)

\* PucciScraper.directory for the tags "collections" and "products"
directory(web, tag, parent_data, prior) ==
    IF tag = "collections"
    THEN collections_row(Fetch(web, parent_data.url), parent_data.url, tag)
    ELSE products_row(extract_products(web, parent_data.url, prior))

\* extract_products appends to the list data[id]["rows"] itself: after the
\* call, the row of id in data holds the returned rows (and its old state).
alias_rows(d, id, value) ==
    IF get_or_none(d, id) = None \/ "rows" \notin DOMAIN d[1][id] THEN d
    ELSE Some([d[1] EXCEPT ![id] = [@ EXCEPT !.rows = value.rows]])

\* The result of extract_directory: the mapping built so far, the URLs
\* fetched, the number of rows resolved, ok = FALSE when a row raised.
Fanned(ok, scraped, fetched, resolved) ==
    [ok |-> ok, scraped |-> scraped, fetched |-> fetched, resolved |-> resolved]

\* The loops of BaseScraper.extract_directory over the categories:
\* directory_loop takes the next category, directory_store stores the row r
\* that directory() returned for it, or leaves with the exception.
RECURSIVE directory_loop(_, _, _, _, _, _, _)
RECURSIVE directory_store(_, _, _, _, _, _, _, _)
directory_store(web, tag, categories, d, scraped_data, fetched, resolved, r) ==
    IF ~r.ok
    THEN Fanned(FALSE, scraped_data, fetched \o r.fetched, resolved)
    ELSE directory_loop(web, tag, Tail(categories),
             alias_rows(d, Head(categories).id, r.value),
             (Head(categories).id :> r.value) @@ scraped_data,
             fetched \o r.fetched, resolved + 1)

directory_loop(web, tag, categories, d, scraped_data, fetched, resolved) ==
    IF categories = <<>> THEN Fanned(TRUE, scraped_data, fetched, resolved)
    ELSE directory_store(web, tag, categories, d, scraped_data, fetched, resolved,
             directory(web, tag, Head(categories),
                       get_or_none(d, Head(categories).id)))

\* The categories of the parent rows, the rows taken in the given order
RECURSIVE categories_of(_, _)
categories_of(parent_data, order) ==
    IF order = <<>> THEN <<>>
    ELSE (IF "rows" \in DOMAIN parent_data[1][Head(order)]
          THEN parent_data[1][Head(order)].rows ELSE <<>>)
         \o categories_of(parent_data, Tail(order))

\* {"root": r} of the root case of extract_directory
root_directory(r) ==
    IF r.ok THEN Fanned(TRUE, RootId :> r.value, r.fetched, 1)
    ELSE Fanned(FALSE, <<>>, r.fetched, 0)

\* BaseScraper.extract_directory; order is the order parent_data.items()
\* yields the parent rows in
extract_directory(web, tag, parent_data, d, order) ==
    IF is_empty(parent_data)
    THEN root_directory(directory(web, tag, [url |-> SelfUrl], get_or_none(d, RootId)))
    ELSE directory_loop(web, tag, categories_of(parent_data, order), d,
             <<>>, <<>>, 0)

\* PucciScraper.detail is handed the list item_data.get("rows", []) and
\* subscripts it with "url": a TypeError, before any fetch
detail(web, tag, parent_data) == Failed(<<>>)

\* item_data.get("rows", [])
rows_or_empty(item_data) ==
    IF "rows" \in DOMAIN item_data THEN item_data.rows ELSE <<>>

\* BaseScraper.extract_detail: extract_detail takes the next parent row,
\* detail_update merges what detail() returned for it, or leaves with the
\* exception.
RECURSIVE extract_detail(_, _, _, _, _, _)
RECURSIVE detail_update(_, _, _, _, _, _, _)
detail_update(web, tag, parent_tag_data, order, detail_data, fetched, r) ==
    IF ~r.ok
    THEN Fanned(FALSE, detail_data, fetched \o r.fetched, 0)
    ELSE extract_detail(web, tag, parent_tag_data, Tail(order),
             r.value @@ detail_data, fetched \o r.fetched)

extract_detail(web, tag, parent_tag_data, order, detail_data, fetched) ==
    IF order = <<>> THEN Fanned(TRUE, detail_data, fetched, 0)
    ELSE detail_update(web, tag, parent_tag_data, order, detail_data, fetched,
             detail(web, tag, rows_or_empty(parent_tag_data[1][Head(order)])))

\* (mutant) the test "parent_tag_data is None" in place of "not parent_tag_data"
missing_parent_none_only(parent_tag_data) == parent_tag_data = None

\* "if not parent_tag_data: raise ValueError"
missing_parent(parent_tag_data) == is_empty(parent_tag_data)

\* (mutant) write_json in a finally clause: what was built is written even
\* when the extraction raised
commit_always(store, tag, result) == write_json(store, tag, result.scraped)

\* scrape_directory and scrape_detail call write_json after the extraction
\* returned; an exception raised by it leaves before the call
commit(store, tag, result) ==
    IF result.ok THEN write_json(store, tag, result.scraped) ELSE store

\* The record of a stage run.
StageRun(op, tag, parent_tag, outcome, result, web, before) ==
    [op |-> op, tag |-> tag, parent_tag |-> parent_tag, outcome |-> outcome,
     scraped |-> result.scraped, fetched |-> result.fetched,
     resolved |-> result.resolved, web |-> web, before |-> before]

\* A stage run that raised ValueError for its parent tag.
NoParent(store, web, op, tag, parent_tag) ==
    <<store, StageRun(op, tag, parent_tag, "ValueError",
                      Fanned(FALSE, <<>>, <<>>, 0), web, store)>>

\* A stage run whose extraction returned result, or raised error.
Extracted(store, web, op, tag, parent_tag, error, result) ==
    <<commit(store, tag, result),
      StageRun(op, tag, parent_tag, IF result.ok THEN "ok" ELSE error,
               result, web, store)>>

\* parent_tag_data of scrape_directory
load_parent(store, parent_tag) ==
    IF parent_tag = None THEN None ELSE load_json(store, parent_tag[1])

\* BaseScraper.scrape_directory: <<the store after it, the record of the run>>
scrape_directory(store, web, tag, parent_tag, order) ==
    IF parent_tag # None /\ missing_parent(load_parent(store, parent_tag))
    THEN NoParent(store, web, "scrape_directory", tag, parent_tag)
    ELSE Extracted(store, web, "scrape_directory", tag, parent_tag, "FetchError",
             extract_directory(web, tag, load_parent(store, parent_tag),
                               load_json(store, tag), order))

\* BaseScraper.scrape_detail: <<the store after it, the record of the run>>
scrape_detail(store, web, tag, parent_tag, order) ==
    IF missing_parent(load_json(store, parent_tag))
    THEN NoParent(store, web, "scrape_detail", tag, Some(parent_tag))
    ELSE Extracted(store, web, "scrape_detail", tag, Some(parent_tag), "TypeError",
             extract_detail(web, tag, load_json(store, parent_tag), order,
                            <<>>, <<>>))

(***************************************************************************)
(* State.                                                                  *)
(*   listing  the pages of the row's listing (fixed: the site is the same  *)
(*            over the invocations on the row)                             *)
(*   data     the row's checkpoint: None before the first invocation, then *)
(*            what the last invocation returned                            *)
(*   hist     one record per extract_products invocation on the row: the   *)
(*            checkpoint it was given and what it returned                 *)
(*   disk     the checkpoint store: per tag, whether its directory exists  *)
(*            and the <id>.json files in it                                *)
(*   last     the last stage run: the operation, what it fetched, how it   *)
(*            ended, the store before it                                   *)
(*   nstage   the number of stage runs made                                *)
(*   ndamage  the number of writes of a checkpoint file cut short          *)
(***************************************************************************)
VARIABLES listing, data, hist, disk, last, nstage, ndamage

vars == <<listing, data, hist, disk, last, nstage, ndamage>>

rowVars == <<listing, data, hist>>

stageVars == <<disk, last, nstage, ndamage>>

(***************************************************************************)
(* One row: repeated extract_products invocations on one category.         *)
(***************************************************************************)
\* The pages a listing is made of in the model.
PageCatalog ==
    { <<>>,
      <<aA, aB>>,
      <<aB, aC>>,
      <<aA, aB, aC>>,
      <<aA2, aX, aS, aN, aA>> }

\* The category whose products are listed: the link extract_links makes of aK.
RowLink == extract_links(<<aK>>, "collections")[1]

RowUrl == RowLink.url

RowWeb == RowUrl :> [k \in 0..MaxPage |-> Page(listing[k])]

NoStage == [op |-> "none"]

RowInit ==
    /\ listing \in [0..MaxPage -> PageCatalog]
    /\ data = None
    /\ hist = <<>>
    /\ disk = [t \in Tags |-> NoDir]
    /\ last = NoStage
    /\ nstage = 0
    /\ ndamage = 0

\* directory(tag="products", parent_data=RowLink, data=data), and its result
\* kept as the row's checkpoint for the next invocation
Invoke ==
    /\ Len(hist) < MaxRuns
    /\ LET res == extract_products(RowWeb, RowUrl, data)
       IN  /\ hist' = Append(hist, [prior |-> data, res |-> res])
           /\ data' = IF res.ok
                      THEN Some([state |-> res.state, rows |-> res.rows])
                      ELSE data
    /\ UNCHANGED <<listing, stageVars>>

Next == Invoke

Spec == RowInit /\ [][Next]_vars

(***************************************************************************)
(* The stages: scrape_directory("collections"), scrape_directory(          *)
(* "products", parent_tag="collections") and scrape_detail(                *)
(* "product_details", parent_tag="products"), in any order, any number of  *)
(* times; the site answers each run as it then is.                         *)
(***************************************************************************)
\* What the site root may answer.
RootPages ==
    {Page(<<aK, aM>>), Page(<<aK>>), Page(<<aK, aK2>>), Page(<<>>), FetchError}

\* What the listing of a category may be: pages that answer, a first page
\* that fails, a second page that fails.
StageListings ==
    { (0 :> Page(<<>>)) @@ (1 :> Page(<<aA, aB>>)),
      (0 :> Page(<<>>)) @@ (1 :> FetchError),
      (0 :> Page(<<>>)) @@ (1 :> Page(<<aB, aC>>)) @@ (2 :> FetchError) }

\* The categories the root links to.
CategoryLinks == extract_links(<<aK, aM>>, "collections")

UrlK == CategoryLinks[1].url

UrlM == CategoryLinks[2].url

\* The url of the link of aK2; the site serves it the listing of UrlK.
UrlK2 == extract_links(<<aK2>>, "collections")[1].url

QuietListing == 0 :> Page(<<>>)

SiteWeb(root, lk, lm) ==
    (SelfUrl :> (0 :> root)) @@ (UrlK :> lk) @@ (UrlM :> lm) @@ (UrlK2 :> lk)

\* The orders in which a dict with the keys S may yield its items.
Orders(S) ==
    {o \in [1..Cardinality(S) -> S] : \A i, j \in 1..Cardinality(S) : o[i] = o[j] => i = j}

KeysOf(d) == IF d = None THEN {} ELSE DOMAIN d[1]

\* The store and the record of the run after a stage run.
Ran(run) ==
    /\ disk' = run[1]
    /\ last' = run[2]

StageInit ==
    /\ listing = [k \in 0..MaxPage |-> <<>>]
    /\ data = None
    /\ hist = <<>>
    /\ disk = [t \in Tags |-> NoDir]
    /\ last = NoStage
    /\ nstage = 0
    /\ ndamage = 0

\* scraper.scrape_directory(tag="collections")
ScrapeCollections ==
    /\ nstage < MaxStageRuns
    /\ \E root \in RootPages :
         Ran(scrape_directory(disk, SiteWeb(root, QuietListing, QuietListing),
                              "collections", None, <<>>))
    /\ nstage' = nstage + 1
    /\ UNCHANGED <<rowVars, ndamage>>

\* scraper.scrape_directory(tag="products", parent_tag="collections")
ScrapeProducts ==
    /\ nstage < MaxStageRuns
    /\ \E lk \in StageListings, lm \in StageListings,
          order \in Orders(KeysOf(load_json(disk, "collections"))) :
         Ran(scrape_directory(disk, SiteWeb(Page(<<>>), lk, lm),
                              "products", Some("collections"), order))
    /\ nstage' = nstage + 1
    /\ UNCHANGED <<rowVars, ndamage>>

\* scraper.scrape_detail(tag="product_details", parent_tag="products")
ScrapeDetail ==
    /\ nstage < MaxStageRuns
    /\ \E order \in Orders(KeysOf(load_json(disk, "products"))) :
         Ran(scrape_detail(disk, SiteWeb(Page(<<>>), QuietListing, QuietListing),
                           "product_details", "products", order))
    /\ nstage' = nstage + 1
    /\ UNCHANGED <<rowVars, ndamage>>

\* A write of write_json cut short (the process is stopped between open(
\* file_path, "w"), which truncates the file, and the end of json.dump): the
\* file of one row is left with content that does not parse. No stage run
\* is the last thing that happened to the store then.
Damage ==
    /\ ndamage < MaxDamage
    /\ \E tag \in Tags :
         \E id \in DOMAIN disk[tag].files :
             /\ well_formed(disk[tag].files[id])
             /\ disk' = [disk EXCEPT ![tag].files[id] = Malformed]
    /\ last' = NoStage
    /\ ndamage' = ndamage + 1
    /\ UNCHANGED <<rowVars, nstage>>

StageNext == ScrapeCollections \/ ScrapeProducts \/ ScrapeDetail \/ Damage

StageSpec == StageInit /\ [][StageNext]_vars

(***************************************************************************)
(* Vocabulary of the claims about one row.                                 *)
(***************************************************************************)
\* The normalized urls of a list of links.
UrlsOf(rows) == {rows[i].url : i \in 1..Len(rows)}

NoDuplicateUrl(rows) ==
    \A i, j \in 1..Len(rows) : rows[i].url = rows[j].url => i = j

\* The rows of an optional checkpoint.
RowsOf(d) == IF d = None THEN <<>> ELSE d[1].rows

\* The product links of page k of the listing.
LinksOfPage(k) == extract_links(Fetch(RowWeb, [RowUrl EXCEPT !.page = Some(k)]).anchors, "products")

\* The page indices an invocation fetched, in order.
FetchedPages(h) == [i \in 1..Len(h.res.fetched) |-> PageIndex(h.res.fetched[i])]

\* The urls known when page k of an invocation that started at page start is
\* fetched: those of the prior checkpoint and of the pages start..k-1.
KnownBefore(h, start, k) ==
    UrlsOf(RowsOf(h.prior)) \cup UNION {UrlsOf(LinksOfPage(j)) : j \in start..(k - 1)}

\* Page k introduces a link that is not known yet.
IntroducesNew(h, start, k) == ~(UrlsOf(LinksOfPage(k)) \subseteq KnownBefore(h, start, k))

\* A limit no listing of the model reaches: the run ends by a stall.
NoCap == MaxPage + 2

\* The row run to completion in one invocation.
OneShot == extract_products_limit(RowWeb, RowUrl, None, NoCap)

\* The links of the anchors aA, aB, aC.
linkA == extract_links(<<aA>>, "products")[1]
linkB == extract_links(<<aB>>, "products")[1]
linkC == extract_links(<<aC>>, "products")[1]

(***************************************************************************)
(* C1. Idempotent resume: the capped invocations, each resumed from the    *)
(* checkpoint of the one before, end (at the first invocation that stalls) *)
(* with the rows and the state.page of the single uncapped invocation.     *)
(***************************************************************************)
C1_IdempotentResume ==
    \A i \in 1..Len(hist) :
        (/\ hist[i].res.exit = "stalled"
         /\ \A j \in 1..(i - 1) : hist[j].res.exit = "capped")
        => /\ hist[i].res.rows = OneShot.rows
           /\ hist[i].res.state.page = OneShot.state.page

(***************************************************************************)
(* C2. Dedup invariant: after any sequence of invocations on the row, the  *)
(* checkpoint's rows hold no two entries with the same normalized url.     *)
(***************************************************************************)
C2_NoDuplicateRows == NoDuplicateUrl(RowsOf(data))

(***************************************************************************)
(* C3. Stall semantics: when page K is the first page fetched by an        *)
(* invocation that introduces no link that is not already known, the       *)
(* invocation returns state.page = K-1 and fetches no page beyond K.       *)
(***************************************************************************)
C3_StallSemantics ==
    \A i \in 1..Len(hist) :
        LET h == hist[i]
            pages == FetchedPages(h)
            start == pages[1]
        IN  \A n \in 1..Len(pages) :
                (/\ ~IntroducesNew(h, start, pages[n])
                 /\ \A m \in 1..(n - 1) : IntroducesNew(h, start, pages[m]))
                => /\ h.res.state.page = pages[n] - 1
                   /\ n = Len(pages)

(***************************************************************************)
(* C4. Cap semantics: when each of the three pages from the first page an  *)
(* invocation fetches introduces a new link, the invocation fetches        *)
(* exactly those three pages and returns state.page = startPage + 2.       *)
(***************************************************************************)
AlwaysNew(h) ==
    LET start == FetchedPages(h)[1]
    IN  \A k \in start..(start + 2) : IntroducesNew(h, start, k)

C4_CapSemantics ==
    \A i \in 1..Len(hist) :
        LET h == hist[i]
            start == FetchedPages(h)[1]
        IN  AlwaysNew(h)
            => /\ FetchedPages(h) = <<start, start + 1, start + 2>>
               /\ h.res.state.page = start + 2

C4_Witness ==
    \E i \in 1..Len(hist) :
        /\ AlwaysNew(hist[i])
        /\ hist[i].res.exit = "capped"
        /\ Len(hist[i].res.fetched) = pages_limit

(***************************************************************************)
(* C5. End-to-end example: page 0 = [A, B], page 1 = [B, C], page 2 =      *)
(* [A, B, C], no prior checkpoint: the invocation returns rows = [A, B, C] *)
(* and state.page = 1.                                                     *)
(***************************************************************************)
ExampleListing ==
    /\ listing[0] = <<aA, aB>>
    /\ listing[1] = <<aB, aC>>
    /\ listing[2] = <<aA, aB, aC>>

C5_EndToEnd ==
    (ExampleListing /\ Len(hist) >= 1)
    => /\ hist[1].res.rows = <<linkA, linkB, linkC>>
       /\ hist[1].res.state.page = 1

(***************************************************************************)
(* C6. Resume position: an invocation given the checkpoint of the one      *)
(* before, which returned state.page = P, fetches page P + 1 first.        *)
(***************************************************************************)
C6_ResumePosition ==
    \A i \in 2..Len(hist) :
        hist[i - 1].res.ok
        => FetchedPages(hist[i])[1] = hist[i - 1].res.state.page + 1

C6_Witness ==
    /\ Len(hist) >= 3
    /\ hist[1].res.exit = "capped"
    /\ hist[2].res.exit = "stalled"
    /\ FetchedPages(hist[2])[1] = hist[1].res.state.page + 1
    /\ FetchedPages(hist[3])[1] = hist[2].res.state.page + 1

(***************************************************************************)
(* Vocabulary of the claims about a stage run.                             *)
(***************************************************************************)
\* The parent rows the last run of a products stage fanned out over.
LastCategories ==
    categories_of(load_json(last.before, "collections"), <<RootId>>)

\* What the traversal of category c of the last run returns by itself.
OwnResult(c) ==
    directory(last.web, "products", c,
              get_or_none(load_json(last.before, "products"), c.id))

\* The parent stage of the last run had no checkpoint: absent, or empty.
ParentMissing ==
    /\ last.op \in {"scrape_directory", "scrape_detail"}
    /\ last.parent_tag # None
    /\ is_empty(load_json(last.before, last.parent_tag[1]))

(***************************************************************************)
(* C7. Fan-out isolation: when the fetch of one parent row fails in a      *)
(* directory stage run, the rows of the siblings whose own traversal       *)
(* succeeds are in the checkpoint committed for the child stage.           *)
(***************************************************************************)
C7_FanOutIsolation ==
    (/\ last.op = "scrape_directory"
     /\ last.tag = "products"
     /\ last.outcome = "FetchError")
    => \A i \in 1..Len(LastCategories) :
           OwnResult(LastCategories[i]).ok
           => /\ LastCategories[i].id \in KeysOf(load_json(disk, "products"))
              /\ load_json(disk, "products")[1][LastCategories[i].id]
                     = OwnResult(LastCategories[i]).value

(***************************************************************************)
(* C8. Missing parent state is fatal: a stage run whose parent stage has   *)
(* no checkpoint (absent or empty) ends with the error, fetches no page    *)
(* and writes nothing.                                                     *)
(***************************************************************************)
C8_MissingParentFatal ==
    ParentMissing
    => /\ last.outcome = "ValueError"
       /\ last.fetched = <<>>
       /\ disk = last.before

C8_Witness ==
    /\ ParentMissing
    /\ last.op = "scrape_detail"
    /\ last.before["products"].exists
    /\ last.outcome = "ValueError"

(***************************************************************************)
(* C9. No partial overwrite: after a stage run that failed without         *)
(* resolving any row, the stage's checkpoint is the one before the run.    *)
(***************************************************************************)
C9_NoPartialOverwrite ==
    (/\ last.op # "none"
     /\ last.outcome # "ok"
     /\ last.resolved = 0)
    => disk[last.tag] = last.before[last.tag]

C9_Witness ==
    /\ last.op = "scrape_directory"
    /\ last.outcome = "FetchError"
    /\ last.resolved = 0
    /\ last.fetched # <<>>
    /\ DOMAIN last.before[last.tag].files # {}
    /\ disk[last.tag] = last.before[last.tag]

(***************************************************************************)
(* C10. Save overwrites: after the save of a stage run's output, loading   *)
(* the stage returns exactly the mapping saved.                            *)
(***************************************************************************)
C10_SaveOverwrites ==
    (last.op # "none" /\ last.outcome = "ok")
    => load_json(disk, last.tag) = Some(last.scraped)

(***************************************************************************)
(* Vocabulary of the claims about a detail stage run.                      *)
(***************************************************************************)
\* The item Links in the rows of the parent rows of the last detail run.
LastItems ==
    LET parent == load_json(last.before, last.parent_tag[1])[1]
    IN  UNION {{rows_or_empty(parent[k])[n] : n \in 1..Len(rows_or_empty(parent[k]))}
               : k \in DOMAIN parent}

\* The number of times url was fetched in the last run.
TimesFetched(url) ==
    Cardinality({n \in 1..Len(last.fetched) : last.fetched[n] = url})

(***************************************************************************)
(* C11. Detail fan-out: a detail stage run over a non-empty parent         *)
(* checkpoint returns, fetches the page of every item Link in the rows of  *)
(* the parent rows exactly once, and its mapping has exactly one entry per *)
(* item id.                                                                *)
(***************************************************************************)
C11_DetailFanOut ==
    (last.op = "scrape_detail" /\ ~ParentMissing)
    => /\ last.outcome = "ok"
       /\ \A item \in LastItems : TimesFetched(item.url) = 1
       /\ DOMAIN last.scraped = {item.id : item \in LastItems}

(***************************************************************************)
(* Vocabulary of the claims about the Links of the row.                    *)
(***************************************************************************)
\* The Links extract_links gave for the pages invocation h fetched.
Discovered(h) ==
    UNION {{LinksOfPage(FetchedPages(h)[n])[m]
            : m \in 1..Len(LinksOfPage(FetchedPages(h)[n]))}
           : n \in 1..Len(FetchedPages(h))}

(***************************************************************************)
(* C12. Idempotent id mapping: two Links discovered with the same          *)
(* normalized url, on any pages and in any invocations, carry the same id. *)
(***************************************************************************)
C12_IdOfUrl ==
    \A i, j \in 1..Len(hist) :
        \A l1 \in Discovered(hist[i]) :
            \A l2 \in Discovered(hist[j]) :
                l1.url = l2.url => l1.id = l2.id

(***************************************************************************)
(* C13. Checkpoint load tolerance: loading a stage that was never          *)
(* checkpointed returns absent; loading a stage whose directory holds      *)
(* malformed entries returns, without failing, exactly the well-formed     *)
(* rows.                                                                   *)
(***************************************************************************)
C13_LoadTolerance ==
    \A tag \in Tags :
        IF ~disk[tag].exists
        THEN load_json(disk, tag) = None
        ELSE /\ load_json(disk, tag) # None
             /\ \A id \in DOMAIN disk[tag].files :
                    IF disk[tag].files[id] = Malformed
                    THEN id \notin KeysOf(load_json(disk, tag))
                    ELSE /\ id \in KeysOf(load_json(disk, tag))
                         /\ load_json(disk, tag)[1][id] = disk[tag].files[id]
             /\ KeysOf(load_json(disk, tag)) \subseteq DOMAIN disk[tag].files

\* A products run that went through over a parent checkpoint it loaded, with
\* its own checkpoint holding a malformed row and a well-formed one, and the
\* detail stage never checkpointed.
C13_Witness ==
    /\ last.op = "scrape_directory"
    /\ last.tag = "products"
    /\ last.outcome = "ok"
    /\ \E id \in DOMAIN last.before["products"].files :
           last.before["products"].files[id] = Malformed
    /\ \E id \in DOMAIN disk["products"].files :
           disk["products"].files[id] = Malformed
    /\ KeysOf(load_json(disk, "products")) # {}
    /\ ~disk["product_details"].exists
    /\ load_json(disk, "product_details") = None

(***************************************************************************)
(* Vocabulary of the claims about the page an invocation records.          *)
(***************************************************************************)
\* state.page of an optional checkpoint: 0 when there is none.
PageOf(d) == IF d = None THEN 0 ELSE d[1].state.page

\* The positions, among the pages invocation h fetched, of those that
\* introduce a link that is not known yet.
Advancing(h) ==
    {n \in 1..Len(FetchedPages(h)) :
        IntroducesNew(h, FetchedPages(h)[1], FetchedPages(h)[n])}

\* The largest member of a non-empty set of numbers.
Last(S) == CHOOSE n \in S : \A m \in S : m <= n

(***************************************************************************)
(* C14. Recorded page: at every return of an invocation, state.page is the *)
(* index of the last page fetched that introduced a link not known yet;    *)
(* when the first page it fetched introduced none, state.page is the       *)
(* state.page of the prior checkpoint (0 when there was none).             *)
(***************************************************************************)
C14_RecordedPage ==
    \A i \in 1..Len(hist) :
        hist[i].res.ok
        => IF 1 \in Advancing(hist[i])
           THEN hist[i].res.state.page
                    = FetchedPages(hist[i])[Last(Advancing(hist[i]))]
           ELSE hist[i].res.state.page = PageOf(hist[i].prior)

(***************************************************************************)
(* C15. Fresh start: an invocation given no prior checkpoint fetches page  *)
(* 0 first.                                                                *)
(***************************************************************************)
C15_FreshStart ==
    \A i \in 1..Len(hist) :
        hist[i].prior = None => FetchedPages(hist[i])[1] = 0

(***************************************************************************)
(* C16. Bounded per-run work: every invocation, whatever checkpoint it is  *)
(* given, returns after fetching at least one page and at most pages_limit *)
(* pages.                                                                  *)
(***************************************************************************)
C16_BoundedWork ==
    \A i \in 1..Len(hist) :
        /\ hist[i].res.ok
        /\ Len(hist[i].res.fetched) >= 1
        /\ Len(hist[i].res.fetched) <= pages_limit

\* A first invocation that fetched pages_limit pages and a resumed one that
\* fetched a single page.
C16_Witness ==
    /\ Len(hist) >= 2
    /\ Len(hist[1].res.fetched) = pages_limit
    /\ hist[2].prior # None
    /\ Len(hist[2].res.fetched) = 1

(***************************************************************************)
(* C17. In-order pagination: the pages an invocation fetches have          *)
(* consecutive, strictly increasing indices and no page URL is fetched     *)
(* twice; the invocation ends by a stall or by the cap, never because the  *)
(* next URL was already seen.                                              *)
(***************************************************************************)
C17_InOrderPagination ==
    \A i \in 1..Len(hist) :
        /\ \A n \in 2..Len(FetchedPages(hist[i])) :
               FetchedPages(hist[i])[n] = FetchedPages(hist[i])[n - 1] + 1
        /\ \A n, m \in 1..Len(hist[i].res.fetched) :
               hist[i].res.fetched[n] = hist[i].res.fetched[m] => n = m
        /\ hist[i].res.exit \in {"stalled", "capped"}

\* A resumed invocation that fetched three pages, after one that fetched two.
C17_Witness ==
    /\ Len(hist) >= 2
    /\ Len(hist[1].res.fetched) = 2
    /\ hist[2].prior # None
    /\ Len(hist[2].res.fetched) = 3
    /\ FetchedPages(hist[2])[3] = FetchedPages(hist[2])[1] + 2

(***************************************************************************)
(* Vocabulary of the claims about the order of the rows.                   *)
(***************************************************************************)
\* The Links of the pages pages[n], pages[n+1], ..., page after page, each
\* page's in the order extract_links gave them.
RECURSIVE DiscoveryOrder(_, _)
DiscoveryOrder(pages, n) ==
    IF n > Len(pages) THEN <<>>
    ELSE LinksOfPage(pages[n]) \o DiscoveryOrder(pages, n + 1)

\* s is t with some of its elements left out.
RECURSIVE IsSubsequence(_, _)
IsSubsequence(s, t) ==
    IF s = <<>> THEN TRUE
    ELSE IF t = <<>> THEN FALSE
    ELSE IF Head(s) = Head(t) THEN IsSubsequence(Tail(s), Tail(t))
    ELSE IsSubsequence(s, Tail(t))

\* The rows invocation h added to those of the checkpoint it was given.
AddedRows(h) == SubSeq(h.res.rows, Len(RowsOf(h.prior)) + 1, Len(h.res.rows))

(***************************************************************************)
(* C18. Rows only extended: the rows of the prior checkpoint are a prefix  *)
(* of the rows an invocation returns, and the links it added follow them   *)
(* in the order of discovery: page after page, and within a page in the    *)
(* order of the page.                                                      *)
(***************************************************************************)
C18_RowsOnlyExtended ==
    \A i \in 1..Len(hist) :
        /\ Len(hist[i].res.rows) >= Len(RowsOf(hist[i].prior))
        /\ SubSeq(hist[i].res.rows, 1, Len(RowsOf(hist[i].prior)))
               = RowsOf(hist[i].prior)
        /\ IsSubsequence(AddedRows(hist[i]),
                         DiscoveryOrder(FetchedPages(hist[i]), 1))

\* A resumed invocation that was given at least two rows and added at least
\* two, of two pages.
C18_Witness ==
    /\ Len(hist) >= 2
    /\ Len(RowsOf(hist[2].prior)) >= 2
    /\ Len(AddedRows(hist[2])) >= 2
    /\ Len(hist[2].res.fetched) >= 3
    /\ ~IsSubsequence(AddedRows(hist[2]), LinksOfPage(FetchedPages(hist[2])[1]))

(***************************************************************************)
(* C19. Stalled is terminal: after an invocation that ended by a stall,    *)
(* the next invocation, resumed from the checkpoint it returned over the   *)
(* same listing, returns the same rows and the same state.page.            *)
(***************************************************************************)
C19_StalledIsTerminal ==
    \A i \in 1..(Len(hist) - 1) :
        hist[i].res.exit = "stalled"
        => /\ hist[i + 1].res.rows = hist[i].res.rows
           /\ hist[i + 1].res.state.page = hist[i].res.state.page

(***************************************************************************)
(* C20. No row lost or shared in fan-out: the mapping a products stage run *)
(* returns has exactly one entry for every distinct Link (distinct         *)
(* normalized url) of the parent rows, the entry of a Link is what its own *)
(* traversal returns from its own checkpoint entry, and two distinct Links *)
(* never have the same key.                                                *)
(***************************************************************************)
C20_NoRowLostOrShared ==
    (/\ last.op = "scrape_directory"
     /\ last.tag = "products"
     /\ last.outcome = "ok")
    => /\ Cardinality(DOMAIN last.scraped) = Cardinality(UrlsOf(LastCategories))
       /\ \A i, j \in 1..Len(LastCategories) :
              LastCategories[i].url # LastCategories[j].url
              => LastCategories[i].id # LastCategories[j].id
       /\ \A i \in 1..Len(LastCategories) :
              /\ LastCategories[i].id \in DOMAIN last.scraped
              /\ last.scraped[LastCategories[i].id]
                     = OwnResult(LastCategories[i]).value

====
